---- MODULE Spec2Model ----
(***************************************************************************)
(* The pick-eligibility, auto-pick and result-processing engine of the    *)
(* CF_Survivor pool (src/app.py, src/models.py, src/display_utils.py,     *)
(* src/timezone_utils.py) as a state machine.                             *)
(*                                                                         *)
(* Instants are integers (one pool-timezone clock, so make_aware and the  *)
(* tz localisation are the identity on them).  Spreads are whole points.  *)
(* A team id of 0 stands for None (an untracked opponent); a tracked      *)
(* team's name and id identify each other (Team.name is unique).          *)
(* Pick.created_at takes part in no rule and is left out.                 *)
(***************************************************************************)
EXTENDS Integers, FiniteSets, Sequences, TLC

VARIABLES
  scenario,           \* which database the run starts from (fixed in a run)
  now,                \* the clock every handler reads (get_current_time)
  is_playoff_week,    \* Week.is_playoff_week, per week
  picks,              \* the Pick table: rows [user, week, team, is_correct]
  lives,              \* User.lives_remaining
  elim,               \* User.is_eliminated
  cspread,            \* User.cumulative_spread
  won,                \* Game.home_team_won: "none", "true" or "false"
  complete,           \* Week.is_complete
  pc,                 \* where the mark_results request stands
  pweek,              \* week_id of the running process_week_results
  active_user_ids,    \* its local of that name
  users_with_one_life_before,   \* its local of that name
  response,           \* what the request of the last step answered
  inflight            \* the make_pick POSTs that have read and not yet committed

vars == << scenario, now, is_playoff_week, picks, lives, elim, cspread, won, complete,
           pc, pweek, active_user_ids, users_with_one_life_before, response, inflight >>

\* ------------------------------------------------------------- bounds
NumUsers == 2
MaxTime == 4

\* ---------------------------------------------------- program constants
SpreadCap == 16
InitialLives == 2
BestFavoritismInit == -999
SmallestUnderdogInit == 999

\* ------------------------------------------------------------ schedule
\* Two databases.  "season": one user, two weeks, four teams and five
\* games (team 2 has no game in week 2).  "pool": NumUsers users, two weeks,
\* two teams and three games (in week 2 each team meets an untracked opponent).
Scenarios == {"season", "pool"}

Users == 1..NumUsers
NoTeam == 0

\* User rows
Roster == IF scenario = "season" THEN {1} ELSE Users

\* Team rows
Teams == IF scenario = "season" THEN {1, 2, 3, 4} ELSE {1, 2}

\* Week rows (Week.deadline), indexed by week id.
Weeks == << [deadline |-> 1], [deadline |-> 3] >>

WeekIds == 1..Len(Weeks)

\* Game rows in id order: week_id, home_team_id, away_team_id,
\* home_team_spread, game_time (hasTime = FALSE is a NULL game_time).
SeasonGames == <<
  [week |-> 1, home |-> 2, away |-> 1, spread |-> 16,  hasTime |-> TRUE,  time |-> 3],
  [week |-> 1, home |-> 3, away |-> 4, spread |-> 3,   hasTime |-> TRUE,  time |-> 3],
  [week |-> 2, home |-> 1, away |-> 0, spread |-> -17, hasTime |-> TRUE,  time |-> 2],
  [week |-> 2, home |-> 3, away |-> 0, spread |-> 0,   hasTime |-> FALSE, time |-> 0],
  [week |-> 2, home |-> 4, away |-> 0, spread |-> 17,  hasTime |-> FALSE, time |-> 0] >>

PoolGames == <<
  [week |-> 1, home |-> 1, away |-> 2, spread |-> -7,  hasTime |-> TRUE,  time |-> 3],
  [week |-> 2, home |-> 2, away |-> 0, spread |-> 3,   hasTime |-> TRUE,  time |-> 2],
  [week |-> 2, home |-> 1, away |-> 0, spread |-> -3,  hasTime |-> TRUE,  time |-> 2] >>

Games == IF scenario = "season" THEN SeasonGames ELSE PoolGames

\* How each game ends on the field ("home" or "away" wins), in game order.
ActualResults ==
  IF scenario = "season" THEN << "home", "away", "home", "away", "away" >>
  ELSE << "home", "home", "away" >>

GameIds == 1..Len(Games)

\* Game.query.filter_by(week_id=w).all(), in id order
RECURSIVE GamesOfWeekFrom(_, _)
GamesOfWeekFrom(w, i) ==
  IF i > Len(Games) THEN << >>
  ELSE IF Games[i].week = w THEN << i >> \o GamesOfWeekFrom(w, i + 1)
       ELSE GamesOfWeekFrom(w, i + 1)

GamesOfWeek(w) == GamesOfWeekFrom(w, 1)

\* The phases the weeks were created with.  season: both regular season,
\* regular season then playoff, both playoff.  pool: both regular season.
PhaseChoices ==
  IF scenario = "season"
  THEN { <<FALSE, FALSE>>, <<FALSE, TRUE>>, <<TRUE, TRUE>> }
  ELSE { <<FALSE, FALSE>> }

is_week_playoff(w) == is_playoff_week[w]

\* Mutant of deadline_has_passed: the deadline is taken one instant late.
deadline_has_passed_late(w, t) == t > Weeks[w].deadline + 1

\* Mutant of deadline_has_passed: the deadline instant itself counts as passed.
deadline_has_passed_inclusive(w, t) == t >= Weeks[w].deadline

\* current > deadline
deadline_has_passed(w, t) == t > Weeks[w].deadline

\* ---------------------------------------------------------------- init
NoResponse == [status |-> "none", made |-> {}, failed |-> {}]

\* The two requests that may be in flight at once, and a free slot.
Requests == {"a", "b"}

NoRequest == [phase |-> "none", user |-> 0, week |-> 0, team |-> NoTeam, existing |-> FALSE]

Init ==
  /\ scenario \in Scenarios
  /\ now = 0
  /\ is_playoff_week \in PhaseChoices
  /\ picks = {}
  /\ lives = [u \in Roster |-> InitialLives]
  /\ elim = [u \in Roster |-> FALSE]
  /\ cspread = [u \in Roster |-> 0]
  /\ won = [g \in GameIds |-> "none"]
  /\ complete = [w \in WeekIds |-> FALSE]
  /\ pc = "idle"
  /\ pweek = 0
  /\ active_user_ids = {}
  /\ users_with_one_life_before = {}
  /\ response = NoResponse
  /\ inflight = [r \in Requests |-> NoRequest]

\* ------------------------------------------------------------- queries
Min(S) == CHOOSE x \in S : \A y \in S : x <= y

HasTeam(g, t) == Games[g].home = t \/ Games[g].away = t

\* Game.query.filter_by(week_id=w).filter(or_(home_team_id == t,
\* away_team_id == t)).first(); 0 when there is no such game
FirstGame(w, t) ==
  LET S == {g \in GameIds : Games[g].week = w /\ HasTeam(g, t)}
  IN IF S = {} THEN 0 ELSE Min(S)

\* the same query with Game.home_team_won != None
FirstGameWithResult(w, t, results) ==
  LET S == {g \in GameIds : Games[g].week = w /\ HasTeam(g, t)
                             /\ results[g] # "none"}
  IN IF S = {} THEN 0 ELSE Min(S)

\* current_time > game_time, for a game whose game_time is set
GameStarted(g, t) == Games[g].hasTime /\ t > Games[g].time

\* get_cfp_eliminated_teams(): the losers of the playoff-week games that
\* have a recorded winner
get_cfp_eliminated_teams(results) ==
  { IF results[g] = "true" THEN Games[g].away ELSE Games[g].home :
      g \in {h \in GameIds : is_playoff_week[Games[h].week] /\ results[h] # "none"} }
  \ {NoTeam}

\* cfp_eliminated_names = set(); if is_week_playoff(week): ... = get_cfp_...
CfpEliminatedNames(w, results) ==
  IF is_week_playoff(w) THEN get_cfp_eliminated_teams(results) ELSE {}

\* Mutant of UsedTeamIds: only the weeks before w are looked at.
UsedTeamIdsEarlierWeeks(u, w, ps) ==
  { p.team : p \in {q \in ps : /\ q.user = u
                               /\ is_playoff_week[q.week] = is_week_playoff(w)
                               /\ q.week < w} }

\* Mutant of UsedTeamIds: the phase filter is dropped.
UsedTeamIdsAnyPhase(u, w, ps) ==
  { p.team : p \in {q \in ps : q.user = u /\ q.week # w} }

\* The used-team query: the user's picks in the other weeks of the same phase.
UsedTeamIds(u, w, ps) ==
  { p.team : p \in {q \in ps : /\ q.user = u
                               /\ is_playoff_week[q.week] = is_week_playoff(w)
                               /\ q.week # w} }

\* Mutant of SpreadTerm: an underdog's spread is added like a favourite's.
SpreadTermAlwaysAdds(p) ==
  LET g == FirstGame(p.week, p.team)
  IN IF g = 0 THEN 0
     ELSE IF Games[g].spread < 0 THEN 0 - Games[g].spread ELSE Games[g].spread

\* The signed contribution of one pick to User.cumulative_spread.
SpreadTerm(p) ==
  LET g == FirstGame(p.week, p.team)
  IN IF g = 0 THEN 0
     ELSE LET team_spread == IF p.team = Games[g].home THEN Games[g].spread
                             ELSE 0 - Games[g].spread
          IN IF team_spread < 0
             THEN (IF team_spread < 0 THEN 0 - team_spread ELSE team_spread)
             ELSE 0 - team_spread

RECURSIVE SumTerms(_)
SumTerms(ps) ==
  IF ps = {} THEN 0
  ELSE LET p == CHOOSE x \in ps : TRUE
       IN SpreadTerm(p) + SumTerms(ps \ {p})

\* User.calculate_cumulative_spread(): over self.picks
calculate_cumulative_spread(u, ps) == SumTerms({p \in ps : p.user = u})

PicksOf(u, w, ps) == {p \in ps : p.user = u /\ p.week = w}

Reply(s) == [status |-> s, made |-> {}, failed |-> {}]

\* --------------------------------------------------------------- clock
\* The clock advances between requests; the last reply has been delivered.
Tick ==
  /\ pc = "idle"
  /\ now < MaxTime
  /\ now' = now + 1
  /\ response' = NoResponse
  /\ UNCHANGED << scenario, inflight, is_playoff_week, picks, lives, elim, cspread, won, complete,
                  pc, pweek, active_user_ids, users_with_one_life_before >>

\* ------------------------------------------------------ make_pick POST
\* Mutant of PickLocked: an existing pick is never locked.
PickNeverLocked(u, w, ps, t) == FALSE

\* pick_locked: the existing pick's game has started
PickLocked(u, w, ps, t) ==
  /\ PicksOf(u, w, ps) # {}
  /\ LET existing_pick == CHOOSE p \in PicksOf(u, w, ps) : TRUE
         existing_game == FirstGame(w, existing_pick.team)
     IN existing_game # 0 /\ GameStarted(existing_game, t)

\* Mutant of NewTeamGameStarted: the check is missing.
NewTeamGameNeverStarted(w, team_id, t) == FALSE

\* the selected team's game has already started
NewTeamGameStarted(w, team_id, t) ==
  LET new_team_game == FirstGame(w, team_id)
  IN new_team_game # 0 /\ GameStarted(new_team_game, t)

\* The reply of make_pick's POST branch, in the order the code tests.
MakePickStatus(u, w, team_id, ps, results, t) ==
  IF elim[u] THEN "eliminated"
  ELSE IF deadline_has_passed(w, t) THEN "deadline"
  ELSE IF PickLocked(u, w, ps, t) THEN "locked"
  ELSE IF NewTeamGameStarted(w, team_id, t) THEN "started"
  ELSE IF is_week_playoff(w) /\ team_id \in CfpEliminatedNames(w, results)
       THEN "cfp_eliminated"
  ELSE IF team_id \in UsedTeamIds(u, w, ps) THEN "used"
  ELSE IF PicksOf(u, w, ps) # {} THEN "updated"
  ELSE "submitted"

Accepted == {"submitted", "updated"}
Rejected == {"eliminated", "deadline", "locked", "started", "cfp_eliminated", "used"}

\* Mutant of SavePick: always inserts a new row.
SavePickAlwaysInsert(u, w, team_id, ps) ==
  ps \cup {[user |-> u, week |-> w, team |-> team_id, is_correct |-> "none"]}

\* Save or update pick
SavePick(u, w, team_id, ps) ==
  IF PicksOf(u, w, ps) # {}
  THEN LET existing_pick == CHOOSE p \in PicksOf(u, w, ps) : TRUE
       IN (ps \ {existing_pick}) \cup {[existing_pick EXCEPT !.team = team_id]}
  ELSE ps \cup {[user |-> u, week |-> w, team |-> team_id, is_correct |-> "none"]}

SubmitPick(u, w, team_id) ==
  /\ pc = "idle"
  /\ LET status == MakePickStatus(u, w, team_id, picks, won, now)
     IN /\ response' = Reply(status)
        /\ IF status \in Accepted
           THEN /\ picks' = SavePick(u, w, team_id, picks)
                /\ cspread' = [cspread EXCEPT ![u] = calculate_cumulative_spread(u, picks')]
           ELSE UNCHANGED << picks, cspread >>
  /\ UNCHANGED << scenario, inflight, now, is_playoff_week, lives, elim, won, complete,
                  pc, pweek, active_user_ids, users_with_one_life_before >>

\* ------------------------------------------------------- make_pick GET
\* One iteration of "for game in games" of the eligible-teams list, on the
\* running teams_added.  A CFP-eliminated home team executes `continue`,
\* which ends the iteration before the away team is looked at.
EligibleStep(g, used_team_ids, cfp, playoff, t, teams_added) ==
  LET home == Games[g].home
      away == Games[g].away
      can_pick == ~GameStarted(g, t)
      homeIn == home # NoTeam /\ home \notin used_team_ids /\ home \notin teams_added
      a1 == IF homeIn /\ Games[g].spread >= 0 - SpreadCap /\ can_pick
            THEN teams_added \cup {home} ELSE teams_added
      awayIn == away # NoTeam /\ away \notin used_team_ids /\ away \notin a1
      away_spread == 0 - Games[g].spread
  IN IF homeIn /\ playoff /\ home \in cfp THEN teams_added
     ELSE IF awayIn /\ playoff /\ away \in cfp THEN a1
     ELSE IF awayIn /\ away_spread >= 0 - SpreadCap /\ can_pick
          THEN a1 \cup {away} ELSE a1

RECURSIVE EligibleLoop(_, _, _, _, _, _, _)
EligibleLoop(gs, i, used_team_ids, cfp, playoff, t, teams_added) ==
  IF i > Len(gs) THEN teams_added
  ELSE EligibleLoop(gs, i + 1, used_team_ids, cfp, playoff, t,
                    EligibleStep(gs[i], used_team_ids, cfp, playoff, t, teams_added))

\* eligible_teams as make_pick's GET branch builds it
eligible_teams(u, w, ps, results, t) ==
  EligibleLoop(GamesOfWeek(w), 1, UsedTeamIds(u, w, ps),
               CfpEliminatedNames(w, results), is_week_playoff(w), t, {})

\* -------------------------------------------------- process_autopicks
\* Mutant of NotStarted: started games are not filtered out.
NotStartedAlways(g, t) == TRUE

\* games of the week that haven't started yet:
\* not game.game_time or make_aware(game.game_time) > current_time
NotStarted(g, t) == ~Games[g].hasTime \/ Games[g].time > t

RECURSIVE OpenGamesFrom(_, _, _)
OpenGamesFrom(gs, i, t) ==
  IF i > Len(gs) THEN << >>
  ELSE IF NotStarted(gs[i], t) THEN << gs[i] >> \o OpenGamesFrom(gs, i + 1, t)
       ELSE OpenGamesFrom(gs, i + 1, t)

OpenGames(w, t) == OpenGamesFrom(GamesOfWeek(w), 1, t)

NoBest == [team |-> NoTeam, favoritism |-> BestFavoritismInit]

\* "Check home team" of the favourite loop
FavHome(g, best) ==
  LET home_favoritism == 0 - Games[g].spread
  IN IF 0 < home_favoritism /\ home_favoritism <= SpreadCap
        /\ home_favoritism > best.favoritism
     THEN [team |-> Games[g].home, favoritism |-> home_favoritism]
     ELSE best

\* "Check away team" of the favourite loop
FavAway(g, best) ==
  LET away_favoritism == Games[g].spread
  IN IF 0 < away_favoritism /\ away_favoritism <= SpreadCap
        /\ away_favoritism > best.favoritism
     THEN [team |-> Games[g].away, favoritism |-> away_favoritism]
     ELSE best

\* One iteration of "for game in games" in the favourite loop.  A
\* CFP-eliminated home team executes `continue`, which ends the iteration
\* before the away team is looked at.
FavStep(g, used_team_ids, cfp, playoff, best) ==
  LET homeIn == Games[g].home # NoTeam /\ Games[g].home \notin used_team_ids
      awayIn == Games[g].away # NoTeam /\ Games[g].away \notin used_team_ids
  IN IF homeIn /\ playoff /\ Games[g].home \in cfp THEN best
     ELSE LET b1 == IF homeIn THEN FavHome(g, best) ELSE best
          IN IF awayIn /\ playoff /\ Games[g].away \in cfp THEN b1
             ELSE IF awayIn THEN FavAway(g, b1) ELSE b1

RECURSIVE FavLoop(_, _, _, _, _, _)
FavLoop(gs, i, used_team_ids, cfp, playoff, best) ==
  IF i > Len(gs) THEN best
  ELSE FavLoop(gs, i + 1, used_team_ids, cfp, playoff,
               FavStep(gs[i], used_team_ids, cfp, playoff, best))

NoUnderdog == [team |-> NoTeam, points |-> SmallestUnderdogInit]

\* Mutant of DogHome: a pick'em home team counts as an underdog.
DogHomeOrEven(g, best) ==
  IF Games[g].spread >= 0 /\ Games[g].spread < best.points
  THEN [team |-> Games[g].home, points |-> Games[g].spread]
  ELSE best

DogHome(g, best) ==
  IF Games[g].spread > 0 /\ Games[g].spread < best.points
  THEN [team |-> Games[g].home, points |-> Games[g].spread]
  ELSE best

DogAway(g, best) ==
  LET away_spread == 0 - Games[g].spread
  IN IF away_spread > 0 /\ away_spread < best.points
     THEN [team |-> Games[g].away, points |-> away_spread]
     ELSE best

\* One iteration of the smallest-underdog loop, with the same `continue`.
DogStep(g, used_team_ids, cfp, playoff, best) ==
  LET homeIn == Games[g].home # NoTeam /\ Games[g].home \notin used_team_ids
      awayIn == Games[g].away # NoTeam /\ Games[g].away \notin used_team_ids
  IN IF homeIn /\ playoff /\ Games[g].home \in cfp THEN best
     ELSE LET b1 == IF homeIn THEN DogHome(g, best) ELSE best
          IN IF awayIn /\ playoff /\ Games[g].away \in cfp THEN b1
             ELSE IF awayIn THEN DogAway(g, b1) ELSE b1

RECURSIVE DogLoop(_, _, _, _, _, _)
DogLoop(gs, i, used_team_ids, cfp, playoff, best) ==
  IF i > Len(gs) THEN best
  ELSE DogLoop(gs, i + 1, used_team_ids, cfp, playoff,
               DogStep(gs[i], used_team_ids, cfp, playoff, best))

\* best_team of the favourite loop for one user (NoTeam: none found)
BestFavorite(u, w, ps, results, t) ==
  FavLoop(OpenGames(w, t), 1, UsedTeamIds(u, w, ps),
          CfpEliminatedNames(w, results), is_week_playoff(w), NoBest).team

\* smallest_underdog for one user
SmallestUnderdog(u, w, ps, results, t) ==
  DogLoop(OpenGames(w, t), 1, UsedTeamIds(u, w, ps),
          CfpEliminatedNames(w, results), is_week_playoff(w), NoUnderdog).team

\* best_team after both loops
AutoPickTeam(u, w, ps, results, t) ==
  IF BestFavorite(u, w, ps, results, t) # NoTeam
  THEN BestFavorite(u, w, ps, results, t)
  ELSE SmallestUnderdog(u, w, ps, results, t)

\* Mutant of UsersNeedingAutopick: users who already have a pick are not excluded.
UsersNeedingAutopickAll(w, ps, el) == {u \in Roster : ~el[u]}

\* users_needing_autopick
UsersNeedingAutopick(w, ps, el) ==
  {u \in Roster : ~el[u] /\ \A p \in ps : p.week = w => p.user # u}

ProcessAutopicks(w) ==
  /\ pc = "idle"
  /\ IF ~deadline_has_passed(w, now)
     THEN /\ response' = Reply("not_processed")
          /\ UNCHANGED << picks, cspread >>
     ELSE LET need == UsersNeedingAutopick(w, picks, elim)
              made == {u \in need : AutoPickTeam(u, w, picks, won, now) # NoTeam}
          IN /\ picks' = picks \cup
                  { [user |-> u, week |-> w,
                     team |-> AutoPickTeam(u, w, picks, won, now),
                     is_correct |-> "none"] : u \in made }
             /\ cspread' = [u \in Roster |->
                  IF u \in made THEN calculate_cumulative_spread(u, picks')
                  ELSE cspread[u]]
             /\ response' = [status |-> "processed", made |-> made,
                             failed |-> need \ made]
  /\ UNCHANGED << scenario, inflight, now, is_playoff_week, lives, elim, won, complete,
                  pc, pweek, active_user_ids, users_with_one_life_before >>

\* ------------------------------------------------------- mark_results
\* The form carries, per game of the week, "home", "away" or nothing ("").
\* The admin posts a game's actual result, and only for a game that has
\* kicked off (or has no game_time); the handler itself looks at neither.
ResultForms(w, t) ==
  { f \in [ {g \in GameIds : Games[g].week = w} -> {"", "home", "away"} ] :
      \A g \in DOMAIN f : f[g] # "" =>
         /\ f[g] = ActualResults[g]
         /\ ~Games[g].hasTime \/ t > Games[g].time }

\* game.home_team_won = (result == 'home'), for the games the form names
RecordResults(f, results) ==
  [g \in GameIds |->
     IF g \in DOMAIN f /\ f[g] # ""
     THEN (IF f[g] = "home" THEN "true" ELSE "false")
     ELSE results[g]]

\* mark_results POST up to its first commit: results recorded and the week
\* marked complete; process_week_results(week_id) follows.
MarkResults(w, f) ==
  /\ pc = "idle"
  /\ won' = RecordResults(f, won)
  /\ complete' = [complete EXCEPT ![w] = TRUE]
  /\ pc' = "process"
  /\ pweek' = w
  /\ response' = NoResponse
  /\ UNCHANGED << scenario, inflight, now, is_playoff_week, picks, lives, elim, cspread,
                  active_user_ids, users_with_one_life_before >>

\* ----------------------------------------------- process_week_results
Not3(b) == IF b = "true" THEN "false" ELSE "true"

\* Mutant of IsCorrect: the home team's result is taken whichever team was picked.
IsCorrectAlwaysHome(p, g, results) == results[g]

\* pick.is_correct for a pick whose team has a game with a recorded result
IsCorrect(p, g, results) ==
  IF p.team = Games[g].home THEN results[g] ELSE Not3(results[g])

\* Mutant of ProcessPick: a life is deducted, but reaching 0 neither sets
\* is_eliminated nor clamps.
ProcessPickNoElimination(p, w, results, st) ==
  LET game == FirstGameWithResult(w, p.team, results)
  IN IF game = 0 THEN st
     ELSE LET c == IsCorrect(p, game, results)
              marked == (st.picks \ {p}) \cup {[p EXCEPT !.is_correct = c]}
          IN IF c = "false"
             THEN [picks |-> marked,
                   lives |-> [st.lives EXCEPT ![p.user] = st.lives[p.user] - 1],
                   elim  |-> st.elim]
             ELSE [picks |-> marked, lives |-> st.lives, elim |-> st.elim]

\* Mutant of ProcessPick: a pick that already carries a result is skipped.
ProcessPickOnce(p, w, results, st) ==
  LET game == FirstGameWithResult(w, p.team, results)
  IN IF game = 0 \/ p.is_correct # "none" THEN st
     ELSE LET c == IsCorrect(p, game, results)
              marked == (st.picks \ {p}) \cup {[p EXCEPT !.is_correct = c]}
              l1 == st.lives[p.user] - 1
          IN IF c = "false"
             THEN IF l1 <= 0
                  THEN [picks |-> marked,
                        lives |-> [st.lives EXCEPT ![p.user] = 0],
                        elim  |-> [st.elim EXCEPT ![p.user] = TRUE]]
                  ELSE [picks |-> marked,
                        lives |-> [st.lives EXCEPT ![p.user] = l1],
                        elim  |-> st.elim]
             ELSE [picks |-> marked, lives |-> st.lives, elim |-> st.elim]

\* Mutant of ProcessPick: a pick whose team has no game with a result is
\* counted as lost.
ProcessPickMissingIsLoss(p, w, results, st) ==
  LET game == FirstGameWithResult(w, p.team, results)
      c == IF game = 0 THEN "false" ELSE IsCorrect(p, game, results)
      marked == (st.picks \ {p}) \cup {[p EXCEPT !.is_correct = c]}
      l1 == st.lives[p.user] - 1
  IN IF c = "false"
     THEN IF l1 <= 0
          THEN [picks |-> marked,
                lives |-> [st.lives EXCEPT ![p.user] = 0],
                elim  |-> [st.elim EXCEPT ![p.user] = TRUE]]
          ELSE [picks |-> marked,
                lives |-> [st.lives EXCEPT ![p.user] = l1],
                elim  |-> st.elim]
     ELSE [picks |-> marked, lives |-> st.lives, elim |-> st.elim]

\* The body of "for pick in picks" for one pick, on the running state
\* st = [picks, lives, elim].
ProcessPick(p, w, results, st) ==
  LET game == FirstGameWithResult(w, p.team, results)
  IN IF game = 0 THEN st
     ELSE LET c == IsCorrect(p, game, results)
              marked == (st.picks \ {p}) \cup {[p EXCEPT !.is_correct = c]}
              l1 == st.lives[p.user] - 1
          IN IF c = "false"
             THEN IF l1 <= 0
                  THEN [picks |-> marked,
                        lives |-> [st.lives EXCEPT ![p.user] = 0],
                        elim  |-> [st.elim EXCEPT ![p.user] = TRUE]]
                  ELSE [picks |-> marked,
                        lives |-> [st.lives EXCEPT ![p.user] = l1],
                        elim  |-> st.elim]
             ELSE [picks |-> marked, lives |-> st.lives, elim |-> st.elim]

RECURSIVE ProcessPicks(_, _, _, _)
ProcessPicks(todo, w, results, st) ==
  IF todo = {} THEN st
  ELSE LET p == CHOOSE x \in todo : TRUE
       IN ProcessPicks(todo \ {p}, w, results, ProcessPick(p, w, results, st))

\* process_week_results up to its first commit: the snapshot and the main pass
ProcessWeekResults ==
  /\ pc = "process"
  /\ LET week_picks == {p \in picks : p.week = pweek}
         st == ProcessPicks(week_picks, pweek, won,
                            [picks |-> picks, lives |-> lives, elim |-> elim])
     IN /\ picks' = st.picks
        /\ lives' = st.lives
        /\ elim' = st.elim
        /\ cspread' = [u \in Roster |->
             IF \E p \in week_picks : p.user = u
             THEN calculate_cumulative_spread(u, picks')
             ELSE cspread[u]]
  /\ active_user_ids' = {u \in Roster : ~elim[u]}
  /\ users_with_one_life_before' = {u \in Roster : ~elim[u] /\ lives[u] = 1}
  /\ pc' = "revival"
  /\ UNCHANGED << scenario, inflight, now, is_playoff_week, won, complete, pweek, response >>

\* Mutant of RevivalFires: a lone last user is not revived.
RevivalFiresNotAlone(one_before, active, lv) ==
  /\ Cardinality(one_before) > 1
  /\ Cardinality(one_before) = Cardinality(active)
  /\ \A u \in one_before : lv[u] = 0

\* Mutant of RevivalFires: the snapshot is not compared with the active users.
RevivalFiresSubset(one_before, active, lv) ==
  /\ one_before # {}
  /\ \A u \in one_before : lv[u] = 0

\* the condition of the revival rule
RevivalFires(one_before, active, lv) ==
  /\ one_before # {}
  /\ Cardinality(one_before) = Cardinality(active)
  /\ \A u \in one_before : lv[u] = 0

\* Mutant of RevivedLives: the revived users get their full lives back.
RevivedLivesFull(who, lv) ==
  [u \in Roster |-> IF u \in who THEN InitialLives ELSE lv[u]]

\* Mutant of RevivedLives: every user of the pool is given a life.
RevivedLivesEveryone(who, lv) == [u \in Roster |-> 1]

\* user.lives_remaining = 1, for user in users_to_check
RevivedLives(who, lv) ==
  [u \in Roster |-> IF u \in who THEN 1 ELSE lv[u]]

\* Mutant of RevivedFlags: every user's is_eliminated is reset.
RevivedFlagsEveryone(who, el) == [u \in Roster |-> FALSE]

\* user.is_eliminated = False, for user in users_to_check
RevivedFlags(who, el) ==
  [u \in Roster |-> IF u \in who THEN FALSE ELSE el[u]]

\* process_week_results after its first commit: the revival rule; then
\* mark_results replies.
Revival ==
  /\ pc = "revival"
  /\ IF RevivalFires(users_with_one_life_before, active_user_ids, lives)
     THEN /\ lives' = RevivedLives(users_with_one_life_before, lives)
          /\ elim' = RevivedFlags(users_with_one_life_before, elim)
     ELSE UNCHANGED << lives, elim >>
  /\ pc' = "idle"
  /\ pweek' = 0
  /\ active_user_ids' = {}
  /\ users_with_one_life_before' = {}
  /\ response' = Reply("results_recorded")
  /\ UNCHANGED << scenario, inflight, now, is_playoff_week, picks, cspread, won, complete >>

\* ---------------------------------------------------- index (standings)
\* Mutant of OrderBy: the spread is compared descending.
OrderBySpreadDesc(u, v, lv, cs) ==
  lv[u] > lv[v] \/ (lv[u] = lv[v] /\ cs[u] >= cs[v])

\* order_by(User.lives_remaining.desc(), User.cumulative_spread.asc()):
\* row u may come before row v
OrderBy(u, v, lv, cs) ==
  lv[u] > lv[v] \/ (lv[u] = lv[v] /\ cs[u] <= cs[v])

\* The orders in which the query may return the rows S: rows that compare
\* equal come in any order.
RECURSIVE OrderedRows(_, _, _)
OrderedRows(S, lv, cs) ==
  IF S = {} THEN { << >> }
  ELSE UNION { { << u >> \o rest : rest \in OrderedRows(S \ {u}, lv, cs) } :
               u \in {x \in S : \A y \in S : OrderBy(x, y, lv, cs)} }

\* index(): every user's spread is recalculated and committed, then the
\* non-eliminated users are listed in standings order.
Index ==
  /\ pc = "idle"
  /\ cspread' = [u \in Roster |-> calculate_cumulative_spread(u, picks)]
  /\ \E users \in OrderedRows({u \in Roster : ~elim[u]}, lives, cspread') :
       response' = [status |-> "standings", made |-> {}, failed |-> {},
                    users |-> users]
  /\ UNCHANGED << scenario, inflight, now, is_playoff_week, picks, lives, elim, won, complete,
                  pc, pweek, active_user_ids, users_with_one_life_before >>

Next ==
  \/ Tick
  \/ \E u \in Roster, w \in WeekIds, team_id \in Teams : SubmitPick(u, w, team_id)
  \/ \E w \in WeekIds : ProcessAutopicks(w)
  \/ \E w \in WeekIds : \E f \in ResultForms(w, now) : MarkResults(w, f)
  \/ ProcessWeekResults
  \/ Revival

Spec == Init /\ [][Next]_vars

\* ------------------------------------ status recomputed from the picks
\* fix_pick_results: incorrect_picks = the user's picks with is_correct
\* False; lives_remaining = max(0, 2 - incorrect_picks)
fix_lives(u, ps) ==
  LET incorrect_picks == Cardinality({p \in ps : p.user = u /\ p.is_correct = "false"})
  IN IF InitialLives - incorrect_picks > 0 THEN InitialLives - incorrect_picks ELSE 0

\* weekly_results: lives = 2, one less per incorrect pick of the weeks up to
\* `week` in week order, stopping at 0
RECURSIVE weekly_lives(_, _, _, _, _)
weekly_lives(u, week, ps, v, ls) ==
  IF v > week \/ ls = 0 THEN ls
  ELSE weekly_lives(u, week, ps, v + 1,
         IF \E p \in PicksOf(u, v, ps) : p.is_correct = "false" THEN ls - 1 ELSE ls)

\* user_statuses[user.id] of weekly_results for `week`
user_statuses(u, week, ps) ==
  LET ls == weekly_lives(u, week, ps, 1, InitialLives)
  IN [lives |-> ls, is_eliminated |-> ls = 0]

\* ------------------------------------- make_pick POST, two at a time
\* Mutant of ViolatesUnique: the table has no uniqueness constraint.
NoUniqueConstraint(u, w, ps) == FALSE

\* db.UniqueConstraint('user_id', 'week_id'): an INSERT of a row for
\* (u, w) fails when the table holds one
ViolatesUnique(u, w, ps) == \E p \in ps : p.user = u /\ p.week = w

\* make_pick POST from its start to the last check: the request has read
\* existing_pick and passed, or has answered with a rejection.
BeginSubmit(r, u, w, team_id) ==
  /\ pc = "idle"
  /\ inflight[r].phase = "none"
  /\ LET status == MakePickStatus(u, w, team_id, picks, won, now)
     IN IF status \in Accepted
        THEN /\ inflight' = [inflight EXCEPT ![r] =
                   [phase |-> "read", user |-> u, week |-> w, team |-> team_id,
                    existing |-> PicksOf(u, w, picks) # {}]]
             /\ UNCHANGED response
        ELSE /\ response' = Reply(status)
             /\ UNCHANGED inflight
  /\ UNCHANGED << scenario, now, is_playoff_week, picks, lives, elim, cspread, won,
                  complete, pc, pweek, active_user_ids, users_with_one_life_before >>

\* make_pick POST from "Save or update pick" to the commit.  The UPDATE
\* goes to the row that was read; the INSERT is refused (IntegrityError,
\* the transaction is rolled back) when it violates the constraint.
CommitSubmit(r) ==
  /\ pc = "idle"
  /\ inflight[r].phase = "read"
  /\ LET q == inflight[r]
     IN IF q.existing
        THEN /\ picks' = SavePick(q.user, q.week, q.team, picks)
             /\ cspread' = [cspread EXCEPT ![q.user] =
                              calculate_cumulative_spread(q.user, picks')]
             /\ response' = Reply("updated")
        ELSE IF ViolatesUnique(q.user, q.week, picks)
        THEN /\ response' = Reply("integrity_error")
             /\ UNCHANGED << picks, cspread >>
        ELSE /\ picks' = picks \cup {[user |-> q.user, week |-> q.week,
                                      team |-> q.team, is_correct |-> "none"]}
             /\ cspread' = [cspread EXCEPT ![q.user] =
                              calculate_cumulative_spread(q.user, picks')]
             /\ response' = Reply("submitted")
  /\ inflight' = [inflight EXCEPT ![r] = NoRequest]
  /\ UNCHANGED << scenario, now, is_playoff_week, lives, elim, won, complete,
                  pc, pweek, active_user_ids, users_with_one_life_before >>

\* The season database with picks being submitted by requests that overlap.
RaceInit == Init /\ scenario = "season"

RaceNext ==
  \/ Tick
  \/ \E r \in Requests, u \in Roster, w \in WeekIds, team_id \in Teams :
       BeginSubmit(r, u, w, team_id)
  \/ \E r \in Requests : CommitSubmit(r)

RaceSpec == RaceInit /\ [][RaceNext]_vars

\* The same pool with the home page being requested as well.
StandingsNext == Next \/ Index

StandingsSpec == Init /\ [][StandingsNext]_vars

\* =============================================================== claims
\* ---- helpers of the claims (stated from the rules, not from the loops)
\* the signed spread of team T in game g (negative: favoured)
TeamSpread(g, T) == IF T = Games[g].home THEN Games[g].spread ELSE 0 - Games[g].spread

\* the games of week w with T playing, not yet started at the clock
OpenGamesWith(w, T) ==
  {g \in GameIds : /\ Games[g].week = w /\ T # NoTeam /\ HasTeam(g, T)
                   /\ (~Games[g].hasTime \/ Games[g].time > now)}

\* T is unused by u in the phase of w and not CFP-eliminated for w
Unblocked(u, w, T) ==
  /\ T \notin UsedTeamIds(u, w, picks)
  /\ ~(is_playoff_week[w] /\ T \in get_cfp_eliminated_teams(won))

\* the teams with favoritism in (0, SpreadCap] the auto-pick may take for u
FavCandidates(u, w) ==
  {T \in Teams : /\ Unblocked(u, w, T)
                 /\ \E g \in OpenGamesWith(w, T) :
                      0 - TeamSpread(g, T) > 0 /\ 0 - TeamSpread(g, T) <= SpreadCap}

\* the underdogs the auto-pick may take for u
DogCandidates(u, w) ==
  {T \in Teams : /\ Unblocked(u, w, T)
                 /\ \E g \in OpenGamesWith(w, T) : TeamSpread(g, T) > 0}

\* the signed spread of T in its game of week w
SpreadIn(w, T) == TeamSpread(FirstGame(w, T), T)

\* the picks of u in weeks of the phase opposite to w's
CrossPhasePicks(u, w) ==
  {p \in picks : p.user = u /\ is_playoff_week[p.week] # is_playoff_week[w]}

\* the (user, team) pairs of the picks naming a participant of game g in g's week
NamingRows(ps, g) ==
  { << p.user, p.team >> : p \in {q \in ps : q.week = Games[g].week /\ HasTeam(g, q.team)} }

\* C1: after any step there is at most one Pick per (user, week), and a
\* submit_pick accepted for a user who already has a pick for the week
\* rewrites that row's team and adds no row.
C1_OnePickPerUserWeek ==
  [][ picks' # picks =>
      /\ \A u \in Roster, w \in WeekIds : Cardinality(PicksOf(u, w, picks')) <= 1
      /\ \A u \in Roster, w \in WeekIds, T \in Teams :
           (response'.status \in Accepted /\ PicksOf(u, w, picks) # {}
              /\ SubmitPick(u, w, T))
           => /\ PicksOf(u, w, picks') =
                   {[p EXCEPT !.team = T] : p \in PicksOf(u, w, picks)}
              /\ picks' \ PicksOf(u, w, picks') = picks \ PicksOf(u, w, picks) ]_vars

C1_Witness ==
  /\ response.status = "updated"
  /\ \E u \in Roster, w \in WeekIds : Cardinality(PicksOf(u, w, picks)) = 1
  /\ Cardinality(picks) >= 2

\* C2: picks of the opposite phase change neither the eligible list, nor
\* the reply of submit_pick for any team, nor the auto-pick's choice; and a
\* team counts as used only through a pick in another week of the same phase.
C2_PhaseIsolation ==
  \A u \in Roster, w \in WeekIds :
    LET same == picks \ CrossPhasePicks(u, w)
    IN /\ same # picks =>
            /\ eligible_teams(u, w, picks, won, now) = eligible_teams(u, w, same, won, now)
            /\ AutoPickTeam(u, w, picks, won, now) = AutoPickTeam(u, w, same, won, now)
            /\ \A T \in Teams : MakePickStatus(u, w, T, picks, won, now)
                                  = MakePickStatus(u, w, T, same, won, now)
       /\ \A T \in UsedTeamIds(u, w, picks) :
            \E p \in picks : /\ p.user = u /\ p.team = T /\ p.week # w
                             /\ is_playoff_week[p.week] = is_playoff_week[w]

C2_Witness ==
  /\ response.status = "processed"
  /\ \E p \in picks, q \in picks :
       /\ p.user = q.user /\ p.team = q.team
       /\ is_playoff_week[p.week] # is_playoff_week[q.week]
       /\ p.user \in response.made

\* C3: a submit_pick of a team that is not in eligible_teams(user, week)
\* at that instant is rejected with a reported failure and changes no pick.
C3_SubmitOnlyEligible ==
  [][ response'.status \in Accepted =>
        \A u \in Roster, w \in WeekIds, T \in Teams :
          (T \notin eligible_teams(u, w, picks, won, now) /\ SubmitPick(u, w, T))
          => picks' = picks /\ response'.status \in Rejected ]_vars

\* C4: once the clock is strictly after a game's game_time, no step creates a
\* pick naming one of its two teams in its week, and none changes such a
\* pick to another team.
C4_LockMonotonicity ==
  [][ picks' # picks =>
        \A g \in GameIds :
          (Games[g].hasTime /\ now > Games[g].time)
          => NamingRows(picks', g) = NamingRows(picks, g) ]_vars

C4_Witness ==
  /\ response.status \in {"started", "locked"}
  /\ \E g \in GameIds : /\ Games[g].hasTime /\ now > Games[g].time
                        /\ ~deadline_has_passed(Games[g].week, now)
                        /\ NamingRows(picks, g) # {}

\* C5: lives_remaining never goes up from one state to the next, except in
\* the revival step, where it goes from 0 to 1.
C5_LifeMonotonicity ==
  [][ \A u \in Roster :
        lives'[u] > lives[u] => pc = "revival" /\ lives[u] = 0 /\ lives'[u] = 1 ]_vars

C5_Witness ==
  /\ scenario = "pool"
  /\ pc = "idle"
  /\ \A u \in Roster :
       /\ lives[u] = 1 /\ ~elim[u]
       /\ Cardinality({p \in picks : p.user = u /\ p.is_correct = "false"}) = 2

\* C6: every user is eliminated exactly when out of lives, and lives are 0, 1 or 2.
C6_EliminatedIffNoLives ==
  \A u \in Roster : /\ elim[u] <=> lives[u] = 0
                    /\ lives[u] \in {0, 1, 2}

C6_Witness ==
  /\ pc = "idle"
  /\ response.status = "results_recorded"
  /\ \E u \in Roster, v \in Roster :
       elim[u] /\ lives[u] = 0 /\ ~elim[v] /\ lives[v] = 1

\* C7: the snapshot is the active users at the start of process_week_results;
\* when it is non-empty, all of them had one life and all are at 0 after the
\* main pass, the invocation ends with each at 1 life and not eliminated.
C7_RevivalFires ==
  [][ /\ pc = "process" =>
           /\ active_user_ids' = {u \in Roster : ~elim[u]}
           /\ users_with_one_life_before' = {u \in Roster : ~elim[u] /\ lives[u] = 1}
      /\ ( /\ pc = "revival"
           /\ active_user_ids # {}
           /\ users_with_one_life_before = active_user_ids
           /\ \A u \in active_user_ids : lives[u] = 0 )
         => /\ pc' = "idle"
            /\ \A u \in active_user_ids : lives'[u] = 1 /\ ~elim'[u] ]_vars

C7_Witness ==
  /\ scenario = "season"
  /\ pc = "idle"
  /\ response.status = "results_recorded"
  /\ lives[1] = 1 /\ ~elim[1]
  /\ \E p \in picks, q \in picks :
       p.week # q.week /\ p.is_correct = "false" /\ q.is_correct = "false"

\* C8: when an active user started the invocation with 2 lives (the one-life
\* snapshot is not all of the active users), or a user of the snapshot still
\* has 1 life after the main pass, the invocation raises no user's lives and
\* resets no user's is_eliminated.
C8_RevivalDoesNotFire ==
  [][ /\ pc = "process" =>
           /\ active_user_ids' = {u \in Roster : ~elim[u]}
           /\ users_with_one_life_before' = {u \in Roster : ~elim[u] /\ lives[u] = 1}
           /\ \A u \in Roster : lives'[u] <= lives[u] /\ (elim[u] => elim'[u])
      /\ ( /\ pc = "revival"
           /\ \/ users_with_one_life_before # active_user_ids
              \/ \E u \in users_with_one_life_before : lives[u] = 1 )
         => \A u \in Roster : lives'[u] <= lives[u] /\ (elim[u] => elim'[u]) ]_vars

C8_Witness ==
  /\ pc = "revival"
  /\ users_with_one_life_before # {}
  /\ \A u \in users_with_one_life_before : lives[u] = 0
  /\ \E v \in active_user_ids : v \notin users_with_one_life_before

\* C9: when a user needing an auto-pick has a candidate with favoritism in
\* (0, 16], the auto-pick is such a candidate of the largest favoritism.
C9_PrimaryHeuristic ==
  [][ \A w \in WeekIds :
        (response'.status = "processed" /\ ProcessAutopicks(w))
        => \A u \in UsersNeedingAutopick(w, picks, elim) :
             FavCandidates(u, w) # {}
             => \E p \in PicksOf(u, w, picks') :
                  /\ p.team \in FavCandidates(u, w)
                  /\ \A T \in FavCandidates(u, w) : SpreadIn(w, p.team) <= SpreadIn(w, T) ]_vars

\* C10: the auto-pick takes an underdog only when no candidate has
\* favoritism in (0, 16], and then the underdog of the smallest spread.
C10_Fallback ==
  [][ \A w \in WeekIds :
        (response'.status = "processed" /\ ProcessAutopicks(w))
        => \A u \in UsersNeedingAutopick(w, picks, elim) :
             /\ \A p \in PicksOf(u, w, picks') :
                  p.team \notin FavCandidates(u, w)
                  => /\ FavCandidates(u, w) = {}
                     /\ p.team \in DogCandidates(u, w)
                     /\ \A T \in DogCandidates(u, w) : SpreadIn(w, p.team) <= SpreadIn(w, T)
             /\ (FavCandidates(u, w) = {} /\ DogCandidates(u, w) # {})
                  => PicksOf(u, w, picks') # {} ]_vars

\* C11: a process_autopicks(week) invoked again right after a processed
\* invocation finds no user to consider among those who have a pick for the
\* week, creates no pick and changes none.
C11_IdempotentAutopick ==
  [][ \A w \in WeekIds :
        (response'.status = "processed" /\ ProcessAutopicks(w))
        => LET need2 == UsersNeedingAutopick(w, picks', elim')
           IN /\ \A u \in Roster : PicksOf(u, w, picks') # {} => u \notin need2
              /\ \A u \in need2 : AutoPickTeam(u, w, picks', won', now') = NoTeam
              /\ \A u \in Roster : Cardinality(PicksOf(u, w, picks')) <= 1 ]_vars

C11_Witness ==
  /\ response.status = "processed"
  /\ response.made # {}
  /\ \E w \in WeekIds :
       /\ deadline_has_passed(w, now)
       /\ \A u \in response.made : PicksOf(u, w, picks) # {}
       /\ UsersNeedingAutopick(w, picks, elim) \cap response.made = {}

\* C12: process_autopicks(week) at a time not strictly after the week's
\* deadline answers "not processed" and changes no pick and no user.
C12_NotBeforeDeadline ==
  [][ \A w \in WeekIds :
        (now <= Weeks[w].deadline /\ ProcessAutopicks(w))
        => /\ response'.status = "not_processed"
           /\ picks' = picks /\ lives' = lives /\ elim' = elim
           /\ cspread' = cspread ]_vars

C12_Witness ==
  /\ response.status = "not_processed"
  /\ \E w \in WeekIds :
       /\ now = Weeks[w].deadline
       /\ \E u \in UsersNeedingAutopick(w, picks, elim) :
            AutoPickTeam(u, w, picks, won, now) # NoTeam

\* the user's pick for week w names a team whose game has kicked off
ExistingPickLocked(u, w) ==
  \E p \in picks : /\ p.user = u /\ p.week = w
                   /\ \E g \in GameIds : /\ Games[g].week = w /\ HasTeam(g, p.team)
                                         /\ Games[g].hasTime /\ now > Games[g].time

\* C13: a submit_pick by an eliminated user, after the week's deadline, or
\* over a pick whose game has started is rejected for that reason and
\* changes no pick and no user field.
C13_RejectedSubmitChangesNothing ==
  [][ \A u \in Roster, w \in WeekIds, T \in Teams :
        ( /\ elim[u] \/ now > Weeks[w].deadline \/ ExistingPickLocked(u, w)
          /\ SubmitPick(u, w, T) )
        => /\ response'.status \in {"eliminated", "deadline", "locked"}
           /\ picks' = picks /\ lives' = lives /\ elim' = elim
           /\ cspread' = cspread ]_vars

C13_Witness ==
  /\ response.status = "locked"
  /\ \E u \in Roster, w \in WeekIds :
       /\ ~elim[u] /\ now <= Weeks[w].deadline /\ ExistingPickLocked(u, w)
       /\ \E T \in Teams : /\ PicksOf(u, w, picks) # {}
                           /\ \A p \in PicksOf(u, w, picks) : p.team # T
                           /\ ~NewTeamGameStarted(w, T, now)

\* C14: process_autopicks(W) changes no user's lives or is_eliminated, and
\* process_week_results(W), revival step included, changes neither for a
\* user who has no pick for week W.
C14_MissingPickCostsNoLife ==
  [][ /\ (pc = "idle" /\ response'.status \in {"processed", "not_processed"})
         => (lives' = lives /\ elim' = elim)
      /\ (pc \in {"process", "revival"})
         => \A u \in Roster :
              PicksOf(u, pweek, picks) = {}
              => (lives'[u] = lives[u] /\ elim'[u] = elim[u]) ]_vars

C14_Witness ==
  /\ pc = "idle"
  /\ response.status = "results_recorded"
  /\ \E w \in WeekIds, u \in Roster, v \in Roster :
       /\ complete[w] /\ deadline_has_passed(w, now)
       /\ PicksOf(u, w, picks) = {} /\ lives[u] = InitialLives /\ ~elim[u]
       /\ \E p \in PicksOf(v, w, picks) : p.is_correct = "false"
       /\ lives[v] < InitialLives

\* the games of week w with a recorded winner in which team T plays
ResultedGames(w, T) ==
  {g \in GameIds : Games[g].week = w /\ HasTeam(g, T) /\ won[g] # "none"}

\* team T is the recorded winner of game g
TeamWon(g, T) == IF T = Games[g].home THEN won[g] = "true" ELSE won[g] = "false"

\* C15: the main pass of process_week_results leaves a pick whose team has
\* no game with a recorded winner as it was and costs its user no life, and
\* marks every other pick of the week and applies its life deduction.
C15_OnePassOverAllPicks ==
  [][ pc = "process" =>
        \A p \in {q \in picks : q.week = pweek} :
          IF ResultedGames(pweek, p.team) = {}
          THEN /\ p \in picks'
               /\ p.is_correct = "none"
                    => \A q \in PicksOf(p.user, pweek, picks') : q.is_correct = "none"
               /\ lives'[p.user] = lives[p.user] /\ elim'[p.user] = elim[p.user]
          ELSE LET g == CHOOSE h \in ResultedGames(pweek, p.team) : TRUE
               IN IF TeamWon(g, p.team)
                  THEN /\ [p EXCEPT !.is_correct = "true"] \in picks'
                       /\ lives'[p.user] = lives[p.user] /\ elim'[p.user] = elim[p.user]
                  ELSE /\ [p EXCEPT !.is_correct = "false"] \in picks'
                       /\ lives'[p.user] = (IF lives[p.user] > 1 THEN lives[p.user] - 1 ELSE 0)
                       /\ elim'[p.user] = (elim[p.user] \/ lives[p.user] <= 1) ]_vars

C15_Witness ==
  /\ pc = "revival"
  /\ \E p \in picks, q \in picks :
       /\ p.week = pweek /\ q.week = pweek /\ p.user # q.user
       /\ ResultedGames(pweek, p.team) = {} /\ p.is_correct = "none"
       /\ lives[p.user] = InitialLives
       /\ ResultedGames(pweek, q.team) # {} /\ q.is_correct = "false"
       /\ lives[q.user] < InitialLives

\* C16: in no state is a week marked complete while one of its picks, whose
\* team has a game with a recorded winner in the week, still has is_correct
\* unknown.
C16_CompleteOnlyAfterProcessing ==
  \A w \in WeekIds :
    complete[w] =>
      \A p \in {q \in picks : q.week = w} :
        (\E g \in GameIds : Games[g].week = w /\ HasTeam(g, p.team) /\ won[g] # "none")
        => p.is_correct # "none"

\* C17: the standings list holds exactly the non-eliminated users, each
\* once, by lives_remaining descending and, at equal lives, by
\* cumulative_spread ascending.
C17_StandingsOrder ==
  response.status = "standings" =>
    LET s == response.users
    IN /\ {s[i] : i \in 1..Len(s)} = {u \in Roster : ~elim[u]}
       /\ Len(s) = Cardinality({u \in Roster : ~elim[u]})
       /\ \A i \in 1..Len(s), j \in 1..Len(s) :
            i < j => /\ lives[s[i]] >= lives[s[j]]
                     /\ lives[s[i]] = lives[s[j]] => cspread[s[i]] <= cspread[s[j]]

C17_Witness ==
  /\ response.status = "standings"
  /\ Len(response.users) >= 2
  /\ lives[response.users[1]] > lives[response.users[2]]
  /\ cspread[response.users[1]] > cspread[response.users[2]]

\* what the pick of user u for week w adds to the user's spread: nothing
\* without a pick or without a game of the team in the week, |s| for a
\* negative signed spread s, -s otherwise
WeekContribution(u, w) ==
  IF PicksOf(u, w, picks) = {} THEN 0
  ELSE LET T == (CHOOSE p \in PicksOf(u, w, picks) : TRUE).team
           gs == {g \in GameIds : Games[g].week = w /\ HasTeam(g, T)}
       IN IF gs = {} THEN 0
          ELSE LET s == TeamSpread(CHOOSE g \in gs : TRUE, T)
               IN IF s < 0 THEN 0 - s ELSE 0 - s

RECURSIVE ContributionsUpTo(_, _)
ContributionsUpTo(u, w) ==
  IF w = 0 THEN 0 ELSE WeekContribution(u, w) + ContributionsUpTo(u, w - 1)

C19_SpreadCapBoundary ==
  \A u \in Roster, w \in WeekIds, T \in Teams :
    \A g \in {h \in GameIds : Games[h].week = w /\ HasTeam(h, T)} :
      ( /\ ~elim[u] /\ now <= Weeks[w].deadline
        /\ Unblocked(u, w, T)
        /\ ~(Games[g].hasTime /\ now > Games[g].time) )
      => ( T \in eligible_teams(u, w, picks, won, now)
             <=> TeamSpread(g, T) >= 0 - SpreadCap )

\* C20: two submit_pick requests for the same (user, week) that both read
\* "no existing pick" before either commits do not both insert: the second
\* insert is refused by the uniqueness constraint, and no state holds two
\* picks for one (user, week).
C20_UniqueUnderRace ==
  /\ [](\A u \in Roster, w \in WeekIds : Cardinality(PicksOf(u, w, picks)) <= 1)
  /\ [][ \A r \in Requests :
           ( /\ inflight[r].phase = "read" /\ ~inflight[r].existing
             /\ PicksOf(inflight[r].user, inflight[r].week, picks) # {}
             /\ CommitSubmit(r) )
           => picks' = picks /\ response'.status = "integrity_error" ]_vars

C20_Witness ==
  /\ response.status = "integrity_error"
  /\ \E u \in Roster, w \in WeekIds :
       /\ Cardinality(PicksOf(u, w, picks)) = 1
       /\ \A v \in WeekIds : v # w => PicksOf(u, v, picks) = {}
  /\ \A r \in Requests : inflight[r].phase = "none"

\* C21: the main pass of process_week_results gives every pick of the week
\* whose team plays in a game with a recorded winner is_correct = (team is
\* home and home_team_won) or (team is away and not home_team_won), so two
\* picks of one team in the week end with the same is_correct.
C21_IsCorrectRule ==
  [][ pc = "process" =>
        /\ \A p \in {q \in picks : q.week = pweek} :
             \A g \in ResultedGames(pweek, p.team) :
               LET right == \/ (p.team = Games[g].home /\ won[g] = "true")
                            \/ (p.team = Games[g].away /\ won[g] = "false")
               IN \E q \in picks' :
                    /\ q.user = p.user /\ q.week = p.week /\ q.team = p.team
                    /\ q.is_correct = (IF right THEN "true" ELSE "false")
        /\ \A p \in picks', q \in picks' :
             ( /\ p.week = pweek /\ q.week = pweek /\ p.team = q.team
               /\ ResultedGames(pweek, p.team) # {} )
             => p.is_correct = q.is_correct ]_vars

C21_Witness ==
  /\ pc = "revival"
  /\ \E p \in picks, q \in picks :
       /\ p.week = pweek /\ q.week = pweek /\ p.user # q.user
       /\ p.team = q.team
       /\ \E g \in ResultedGames(pweek, p.team) :
            p.team = Games[g].away /\ won[g] = "true"
       /\ p.is_correct = "false" /\ q.is_correct = "false"

C23_AutopickIsEligible ==
  [][ \A w \in WeekIds :
        (response'.status = "processed" /\ ProcessAutopicks(w))
        => \A p \in picks' \ picks :
             /\ p.week = w
             /\ p.team \in eligible_teams(p.user, w, picks, won, now)
             /\ Unblocked(p.user, w, p.team)
             /\ \E g \in GameIds :
                  /\ Games[g].week = w /\ HasTeam(g, p.team)
                  /\ ~(Games[g].hasTime /\ now > Games[g].time)
                  /\ TeamSpread(g, p.team) >= 0 - SpreadCap ]_vars

C23_Witness ==
  /\ response.status = "processed"
  /\ \E w \in WeekIds, u \in response.made :
       /\ deadline_has_passed(w, now)
       /\ \E p \in PicksOf(u, w, picks) :
            /\ p.team \in eligible_teams(u, w, picks, won, now)
            /\ SpreadIn(w, p.team) > 0
       /\ UsedTeamIds(u, w, picks) # {}

\* C24: in a playoff week, whether the away team of a game is put in the
\* eligible list, or is taken by the favourite loop or by the underdog loop
\* of the auto-pick, is the same with the game's home team in the
\* CFP-eliminated set and with it taken out of the set.
C24_TeamsIndependent ==
  \A u \in Roster, w \in WeekIds :
    is_playoff_week[w] =>
      \A g \in {h \in GameIds : Games[h].week = w /\ Games[h].away # NoTeam} :
        LET cfp == CfpEliminatedNames(w, won)
            without == cfp \ {Games[g].home}
            used == UsedTeamIds(u, w, picks)
            A == Games[g].away
        IN /\ A \in EligibleLoop(GamesOfWeek(w), 1, used, cfp, TRUE, now, {})
                <=> A \in EligibleLoop(GamesOfWeek(w), 1, used, without, TRUE, now, {})
           /\ FavLoop(OpenGames(w, now), 1, used, cfp, TRUE, NoBest).team = A
                <=> FavLoop(OpenGames(w, now), 1, used, without, TRUE, NoBest).team = A
           /\ DogLoop(OpenGames(w, now), 1, used, cfp, TRUE, NoUnderdog).team = A
                <=> DogLoop(OpenGames(w, now), 1, used, without, TRUE, NoUnderdog).team = A

\* C25: no user has picks in two different weeks of the same phase that
\* name the same team, in whatever order the weeks were picked.
C25_OneTeamPerPhase ==
  \A p \in picks, q \in picks :
    ( /\ p.user = q.user /\ p.week # q.week
      /\ is_playoff_week[p.week] = is_playoff_week[q.week] )
    => p.team # q.team

C25_Witness ==
  /\ response.status = "used"
  /\ \E u \in Roster, v \in WeekIds, w \in WeekIds :
       /\ v < w /\ is_playoff_week[v] = is_playoff_week[w]
       /\ PicksOf(u, v, picks) = {} /\ PicksOf(u, w, picks) # {}
       /\ ~elim[u] /\ ~deadline_has_passed(v, now)

\* C26: when a process_week_results invocation starts with a
\* non-eliminated user, it ends with a non-eliminated user holding a life.
C26_FieldNeverLost ==
  [][ /\ pc = "process" => active_user_ids' = {u \in Roster : ~elim[u]}
      /\ (pc = "revival" /\ active_user_ids # {})
           => (pc' = "idle" /\ \E u \in Roster : ~elim'[u] /\ lives'[u] >= 1) ]_vars

C26_Witness ==
  /\ pc = "revival"
  /\ Cardinality(Roster) >= 2
  /\ active_user_ids = Roster
  /\ \A u \in Roster : lives[u] = 0 /\ elim[u]
  /\ \A u \in Roster : \E p \in PicksOf(u, pweek, picks) : p.is_correct = "false"

\* C27: a user who is eliminated when a process_week_results invocation
\* starts is eliminated with 0 lives when it ends, and no step of any
\* request resets an eliminated user's flag or raises their lives outside
\* the revival of users who lost their last life in that same invocation.
C27_EliminationPermanent ==
  [][ /\ pc = "process" => active_user_ids' = {u \in Roster : ~elim[u]}
      /\ \A u \in Roster :
           (elim[u] /\ (pc = "revival" => u \notin active_user_ids))
           => (elim'[u] /\ lives'[u] = 0) ]_vars

C27_Witness ==
  /\ pc = "revival"
  /\ \E u \in Roster : elim[u] /\ u \notin active_user_ids
  /\ active_user_ids # {}
  /\ users_with_one_life_before = active_user_ids
  /\ \A u \in active_user_ids : lives[u] = 0 /\ elim[u]

\* the teams of the eligible list of u for week w that a heuristic of the
\* auto-pick can take: spread other than 0, in a game with no game_time or
\* one still ahead of the clock
Pickable(u, w) ==
  {T \in eligible_teams(u, w, picks, won, now) :
     \E g \in GameIds : /\ Games[g].week = w /\ HasTeam(g, T)
                        /\ TeamSpread(g, T) # 0
                        /\ (~Games[g].hasTime \/ Games[g].time > now)}

C29_FrozenAfterDeadline ==
  [][ (pc = "idle" /\ pc' = "idle" /\ picks' # picks) =>
        \A w \in WeekIds :
          now > Weeks[w].deadline =>
            /\ \A p \in picks : p.week = w => p \in picks'
            /\ \A p \in picks' \ picks :
                 p.week = w => /\ response'.status = "processed"
                               /\ p.user \in response'.made
                               /\ ~elim[p.user]
                               /\ PicksOf(p.user, w, picks) = {} ]_vars

C29_Witness ==
  /\ response.status = "deadline"
  /\ \E u \in Roster, w \in WeekIds :
       /\ now > Weeks[w].deadline
       /\ ~elim[u]
       /\ PicksOf(u, w, picks) # {}
       /\ ~PickLocked(u, w, picks, now)

\* C30: between requests, the status recomputed from the pick history, by
\* fix_pick_results and by the weekly-results view of the latest week,
\* equals every user's stored lives_remaining and is_eliminated.
C30_RecomputedStatus ==
  pc = "idle" =>
    \A u \in Roster :
      /\ lives[u] = fix_lives(u, picks)
      /\ elim[u] = (fix_lives(u, picks) = 0)
      /\ lives[u] = user_statuses(u, Len(Weeks), picks).lives
      /\ elim[u] = user_statuses(u, Len(Weeks), picks).is_eliminated
====
